---- MODULE Spec2Model ----
(***************************************************************************)
(* A model of the Leftmost Skeleton Tree of src/lst.c: the circular        *)
(* element array, the pivot stack, the handle (index) field of every user  *)
(* record, and the operations lst_insert, lst_peek, lst_pop, lst_extract.  *)
(*                                                                         *)
(* The C functions are translated as operators over a record L holding     *)
(* the fields of lst_t, of its pivot_stack_t and the handle field of each  *)
(* user record.  A function that calls rand() is translated as an operator *)
(* that yields the SET of its possible outcomes.                           *)
(***************************************************************************)
EXTENDS Integers, Sequences, FiniteSets, TLC

\* ------------------------------------------------------------- bounds
\* Number of user records the client owns.
NumRecords == 3
\* Number of user records the client of the larger runs owns.
NumRecordsLarge == 4
\* Number of times the element array may double (lst_expand) in a run.
MaxExpand == 1
\* Number of calls the client makes in a run.
MaxOps == 8
\* Number of calls in a run of the client that only inserts, peeks and pops.
MaxOpsIPP == 11
\* Number of calls in a run of the fill, extract, drain scenario.
MaxOpsR2 == 10
\* Number of calls in a run in which the allocator can fail.
MaxOpsNoMem == 6
\* Number of calls in a larger run.
MaxOpsLarge == 9

\* ---------------------------------------------------- program constants
\* src/lst.c:83 (2048 there; scaled down so that wrap and expansion happen).
INITIAL_CAPACITY == 2
\* src/lst.c:84 (32 there; scaled down so that stack_expand happens).
INITIAL_STACK_CAPACITY == 2

MaxCapacity == INITIAL_CAPACITY * (2 ^ MaxExpand)

\* A null pointer, and the content of a slot realloc() did not initialise.
\* Dereferencing either is modelled as the process dying (fault "segv").
NULL == 0
GARBAGE == 0 - 1
\* A pivot-stack entry realloc() did not initialise.
UNINIT == "uninit"
\* What a read past the end of the pivot-stack storage finds when the memory
\* there cannot be read: the process dies.
UNMAPPED == 0 - 2

\* The user records there are, and those the client of all but the larger
\* runs uses; the others are never passed to the LST in such a run.
Records == 1 .. NumRecordsLarge
SomeRecords == 1 .. NumRecords

\* The test element's data field: records 2 and 3 share a key, and so on,
\* so that a record has a smaller one and an equal one beside it.
key(r) == (r \div 2) + 1

\* heap_cmp of the tests: the sign of the difference of the data fields.
cmp(a, b) == IF key(a) > key(b) THEN 1 ELSE IF key(b) > key(a) THEN 0 - 1 ELSE 0

Fault(L, f) == IF L.fault = "none" THEN [L EXCEPT !.fault = f] ELSE L

\* ------------------------------------------------------------- macros
index_reduce(L, i) == i % L.capacity
is_equivalent(L, i1, i2) == index_reduce(L, i1 - i2) = 0
item(L, i) == L.p[index_reduce(L, i)]
item_index(L, d) == L.index[d]

\* -------------------------------------------------------- pivot stack
stack_expand(L) ==
    [L EXCEPT !.size = 2 * L.size,
              !.data = [i \in 0 .. (2 * L.size - 1) |->
                           IF i < L.size THEN L.data[i] ELSE UNINIT]]

\* Returns -1 and pushes nothing when the stack is full and realloc fails;
\* every caller ignores the result.  L.failed notes that an allocation failed.
stack_push(L, pivot) ==
    IF L.depth = L.size /\ L.oom THEN [L EXCEPT !.failed = TRUE]
    ELSE LET E == IF L.depth = L.size THEN stack_expand(L) ELSE L
         IN  [E EXCEPT !.data[E.depth] = pivot, !.depth = E.depth + 1]

stack_pop(L, n) == [L EXCEPT !.depth = L.depth - n]
stack_depth(L) == L.depth
\* s->data[k]; a read past the end of the storage is undefined and yields
\* L.oob, whatever the memory there holds during this call.
stack_item(L, k) == IF k < L.size THEN L.data[k] ELSE L.oob
stack_set(L, k, v) == [L EXCEPT !.data[k] = v]

pivot_item(L, k) == item(L, stack_item(L, k))

\* ------------------------------------------------------ length, size
lst_length(L, stack_index) == stack_depth(L) - stack_index
is_bucket(L, stack_index) == lst_length(L, stack_index) = 1

lst_size(L, stack_index) ==
    IF stack_index = 0 THEN L.num_elements
    ELSE LET reduced_right == index_reduce(L, stack_item(L, stack_index))
             reduced_idx == index_reduce(L, L.idx)
         IN  IF reduced_idx <= reduced_right THEN reduced_right - reduced_idx
             ELSE (L.capacity - reduced_idx) + reduced_right

lst_flatten(L, stack_index) == stack_pop(L, stack_depth(L) - stack_index)

\* p[reduce(location)] = data; data->index = reduce(location).
lst_move(L, location, data) ==
    IF L.fault # "none" THEN L
    ELSE IF data \notin Records THEN Fault(L, "segv")
    ELSE [L EXCEPT !.p[index_reduce(L, location)] = data,
                   !.index[data] = index_reduce(L, location)]

\* ---------------------------------------------------------- bucket_add
RECURSIVE bucket_add_loop(_, _, _)
bucket_add_loop(L, rindex, stack_index) ==
    IF rindex >= stack_index \/ L.fault # "none" THEN L
    ELSE LET prev_pivot_index == stack_item(L, rindex + 1)
             new_space == stack_item(L, rindex)
             empty_bucket == (new_space - prev_pivot_index) = 1
             L1 == stack_set(L, rindex, new_space + 1)
             L2 == IF ~empty_bucket
                   THEN lst_move(L1, new_space, item(L1, prev_pivot_index + 1))
                   ELSE L1
             L3 == lst_move(L2, prev_pivot_index + 1, item(L2, prev_pivot_index))
         IN  bucket_add_loop(L3, rindex + 1, stack_index)

\* A faulty variant of bucket_add that forgets lst->num_elements++.
bucket_add_nocount(L, stack_index, data) ==
    LET L1 == bucket_add_loop(L, 0, stack_index)
        new_space == stack_item(L1, stack_index)
        L2 == stack_set(L1, stack_index, new_space + 1)
    IN  IF L1.fault # "none" THEN L1 ELSE lst_move(L2, new_space, data)

bucket_add(L, stack_index, data) ==
    LET L1 == bucket_add_loop(L, 0, stack_index)
        new_space == stack_item(L1, stack_index)
        L2 == stack_set(L1, stack_index, new_space + 1)
        L3 == lst_move(L2, new_space, data)
    IN  IF L1.fault # "none" THEN L1
        ELSE IF L3.fault # "none" THEN L3
        ELSE [L3 EXCEPT !.num_elements = L3.num_elements + 1]

\* -------------------------------------------------- lst_indices_reduce
lst_indices_reduce(L) ==
    LET reduced_idx == index_reduce(L, L.idx)
    IN  [L EXCEPT !.data = [i \in DOMAIN L.data |->
                               IF i < L.depth
                               THEN reduced_idx + L.data[i] - L.idx
                               ELSE L.data[i]],
                  !.idx = reduced_idx]

\* ---------------------------------------------------------- lst_expand
RECURSIVE lst_expand_loop(_, _, _)
lst_expand_loop(L, i, old_capacity) ==
    IF i >= L.idx \/ L.fault # "none" THEN L
    ELSE LET to_be_moved == item(L, i)
         IN  IF to_be_moved \notin Records THEN Fault(L, "segv")
             ELSE lst_expand_loop(
                      lst_move(L, item_index(L, to_be_moved) + old_capacity, to_be_moved),
                      i + 1, old_capacity)

\* A faulty variant of lst_expand that leaves the wrapped items where they are.
lst_expand_nomove(L) ==
    LET old_capacity == L.capacity
        L1 == [L EXCEPT !.capacity = 2 * old_capacity,
                        !.p = [i \in 0 .. (2 * old_capacity - 1) |->
                                  IF i < old_capacity THEN L.p[i] ELSE GARBAGE]]
    IN  lst_indices_reduce(L1)

\* A variant of lst_expand that grows the pivot stack along with the array.
lst_expand_stack(L) ==
    LET old_capacity == L.capacity
        L1 == [L EXCEPT !.capacity = 2 * old_capacity,
                        !.p = [i \in 0 .. (2 * old_capacity - 1) |->
                                  IF i < old_capacity THEN L.p[i] ELSE GARBAGE]]
        L2 == lst_indices_reduce(L1)
    IN  stack_expand(lst_expand_loop(L2, 0, old_capacity))

\* The caller tests L.oom first: this is the path after a successful realloc.
lst_expand(L) ==
    LET old_capacity == L.capacity
        L1 == [L EXCEPT !.capacity = 2 * old_capacity,
                        !.p = [i \in 0 .. (2 * old_capacity - 1) |->
                                  IF i < old_capacity THEN L.p[i] ELSE GARBAGE]]
        L2 == lst_indices_reduce(L1)
    IN  lst_expand_loop(L2, 0, old_capacity)

\* ----------------------------------------------------------- buckets
bucket_lwb(L, stack_index) ==
    IF is_bucket(L, stack_index) THEN L.idx ELSE stack_item(L, stack_index + 1) + 1

bucket_upb(L, stack_index) == stack_item(L, stack_index) - 1

\* ----------------------------------------------------------- partition
\* The possible values of rand() % n: division by zero kills the process
\* (handled by the caller); C's % truncates, so a negative n yields 0..|n|-1.
RandMod(n) == IF n > 0 THEN 0 .. (n - 1) ELSE 0 .. ((0 - n) - 1)

\* while (lst->cmp(item(lst, --h), pivot) > 0) ;   (called with h already decremented)
RECURSIVE scan_down(_, _, _)
scan_down(L, h, pivot) ==
    IF item(L, h) \notin Records THEN [ok |-> FALSE, at |-> h]
    ELSE IF cmp(item(L, h), pivot) > 0 THEN scan_down(L, h - 1, pivot)
    ELSE [ok |-> TRUE, at |-> h]

\* while (lst->cmp(item(lst, ++l), pivot) < 0) ;   (called with l already incremented)
RECURSIVE scan_up(_, _, _)
scan_up(L, l, pivot) ==
    IF item(L, l) \notin Records THEN [ok |-> FALSE, at |-> l]
    ELSE IF cmp(item(L, l), pivot) < 0 THEN scan_up(L, l + 1, pivot)
    ELSE [ok |-> TRUE, at |-> l]

\* The for (;;) loop of the Hoare partition; yields the array and the final l, h.
RECURSIVE hoare(_, _, _, _)
hoare(L, l0, h0, pivot) ==
    LET sh == scan_down(L, h0 - 1, pivot)
        sl == scan_up(L, l0 + 1, pivot)
        h == sh.at
        l == sl.at
    IN  IF L.fault # "none" THEN [L |-> L, l |-> l0, h |-> h0]
        ELSE IF ~sh.ok \/ ~sl.ok THEN [L |-> Fault(L, "segv"), l |-> l, h |-> h]
        ELSE IF l >= h THEN [L |-> L, l |-> l, h |-> h]
        ELSE LET temp == item(L, l)
                 L1 == lst_move(L, l, item(L, h))
                 L2 == lst_move(L1, h, temp)
             IN  hoare(L2, l, h, pivot)

\* partition() once rand() has picked pivot_index.
partition_at(L, stack_index, low, high, chosen) ==
    LET pivot == item(L, chosen)
        L1 == IF chosen # low
              THEN lst_move(lst_move(L, chosen, item(L, low)), low, pivot)
              ELSE L
        H == hoare(L1, low - 1, high + 1, pivot)
        L2 == H.L
        h == H.h
        handle == item_index(L2, pivot)
        pivot_index == IF handle >= index_reduce(L2, low)
                       THEN low + handle - index_reduce(L2, low)
                       ELSE high - (index_reduce(L2, high) - handle)
        L3 == IF pivot_index < h
              THEN lst_move(lst_move(L2, pivot_index, item(L2, h)), h, pivot)
              ELSE L2
        h2 == IF pivot_index > h THEN h + 1 ELSE h
        L4 == IF pivot_index > h
              THEN lst_move(lst_move(L3, pivot_index, item(L3, h2)), h2, pivot)
              ELSE L3
    IN  IF pivot \notin Records THEN Fault(L, "segv")
        ELSE IF L2.fault # "none" THEN L2
        ELSE IF L4.fault # "none" THEN L4
        ELSE stack_push(L4, h2)

\* The set of outcomes of partition(lst, stack_index), one per value of rand().
partition(L, stack_index) ==
    LET low == bucket_lwb(L, stack_index)
        high == bucket_upb(L, stack_index)
    IN  IF L.fault # "none" THEN {L}
        ELSE IF is_equivalent(L, low, high) THEN {stack_push(L, low)}
        ELSE IF high + 1 - low = 0 THEN {Fault(L, "fpe")}
        ELSE {partition_at(L, stack_index, low, high, low + off) :
                  off \in RandMod(high + 1 - low)}

\* -------------------------------------------------------- bucket_delete
\* A faulty variant of the loop of bucket_delete that shrinks the bucket
\* without moving its top item into the freed location.
bucket_delete_loop_nomove(L, stack_index, location) ==
    IF L.fault # "none" THEN L
    ELSE stack_set(L, stack_index, bucket_upb(L, stack_index))

RECURSIVE bucket_delete_loop(_, _, _)
bucket_delete_loop(L, stack_index, location) ==
    LET top == bucket_upb(L, stack_index)
        L1 == IF ~is_equivalent(L, location, top)
              THEN lst_move(L, location, item(L, top))
              ELSE L
        L2 == stack_set(L1, stack_index, top)
        L3 == lst_move(L2, top, item(L2, top + 1))
    IN  IF L.fault # "none" THEN L
        ELSE IF L1.fault # "none" THEN L1
        ELSE IF stack_index = 0 THEN L2
        ELSE bucket_delete_loop(L3, stack_index - 1, top + 1)

bucket_delete(L, stack_index, data) ==
    LET location == item_index(L, data)
        La == [L EXCEPT !.idx = L.idx + 1]
        Lb == IF is_equivalent(La, La.idx, 0) THEN lst_indices_reduce(La) ELSE La
        Lc == bucket_delete_loop(L, stack_index, location)
        L1 == IF is_equivalent(L, location, L.idx) THEN Lb ELSE Lc
    IN  IF L.fault # "none" THEN L
        ELSE IF L1.fault # "none" THEN L1
        ELSE [L1 EXCEPT !.num_elements = L1.num_elements - 1,
                        !.index[data] = 0 - 1]

\* ------------------------------------------------------------ lst_pop
\* Each of the recursive functions yields the set of [L, ret] it can end in.
RECURSIVE _lst_pop(_, _)
_lst_pop(L, stack_index) ==
    LET P == IF is_bucket(L, stack_index) THEN partition(L, stack_index) ELSE {L}
        after(L1) ==
            LET k == stack_index + 1
                min == pivot_item(L1, k)
            IN  IF L1.fault # "none" THEN {[L |-> L1, ret |-> NULL]}
                ELSE IF k > 2 * L1.capacity THEN {[L |-> Fault(L1, "runaway"), ret |-> NULL]}
                ELSE IF k >= L1.size /\ L1.oob = UNMAPPED
                THEN {[L |-> Fault(L1, "segv"), ret |-> NULL]}
                ELSE IF lst_size(L1, k) = 0
                THEN IF min \notin Records
                     THEN {[L |-> Fault(L1, "segv"), ret |-> NULL]}
                     ELSE {[L |-> bucket_delete(lst_flatten(L1, k), k, min), ret |-> min]}
                ELSE _lst_pop(L1, k)
    IN  UNION {after(L1) : L1 \in P}

\* ----------------------------------------------------------- lst_peek
\* A faulty variant of _lst_peek that returns the first pivot below
\* stack_index without descending to the leftmost one.
_lst_peek_shallow(L, stack_index) ==
    LET P == IF is_bucket(L, stack_index) THEN partition(L, stack_index) ELSE {L}
    IN  {[L |-> L1,
          ret |-> IF L1.fault # "none" THEN NULL ELSE pivot_item(L1, stack_index + 1)]
         : L1 \in P}

RECURSIVE _lst_peek(_, _)
_lst_peek(L, stack_index) ==
    LET P == IF is_bucket(L, stack_index) THEN partition(L, stack_index) ELSE {L}
        after(L1) ==
            LET k == stack_index + 1
            IN  IF L1.fault # "none" THEN {[L |-> L1, ret |-> NULL]}
                ELSE IF k > 2 * L1.capacity THEN {[L |-> Fault(L1, "runaway"), ret |-> NULL]}
                ELSE IF k >= L1.size /\ L1.oob = UNMAPPED
                THEN {[L |-> Fault(L1, "segv"), ret |-> NULL]}
                ELSE IF lst_size(L1, k) = 0 THEN {[L |-> L1, ret |-> pivot_item(L1, k)]}
                ELSE _lst_peek(L1, k)
    IN  UNION {after(L1) : L1 \in P}

\* -------------------------------------------------------- lst_extract
RECURSIVE _lst_extract(_, _, _)
_lst_extract(L, stack_index, data) ==
    IF L.fault # "none" THEN L
    ELSE IF is_bucket(L, stack_index) THEN bucket_delete(L, stack_index, data)
    ELSE LET k == stack_index + 1
             pivot == pivot_item(L, k)
             c == cmp(data, pivot)
         IN  IF pivot \notin Records THEN Fault(L, "segv")
             ELSE IF c < 0 THEN _lst_extract(L, k, data)
             ELSE IF c > 0 THEN bucket_delete(L, k - 1, data)
             ELSE bucket_delete(lst_flatten(L, k), k, data)

\* --------------------------------------------------------- lst_insert
RECURSIVE _lst_insert(_, _, _)
_lst_insert(L, stack_index, data) ==
    IF L.fault # "none" THEN {L}
    ELSE IF is_bucket(L, stack_index) THEN {bucket_add(L, stack_index, data)}
    ELSE LET k == stack_index + 1
             pivot == pivot_item(L, k)
             \* rand() % (lst_size + 1) != 0
             keep == IF pivot \notin Records THEN {Fault(L, "segv")}
                     ELSE IF cmp(data, pivot) < 0 THEN _lst_insert(L, k, data)
                     ELSE {bucket_add(L, k - 1, data)}
             \* rand() % (lst_size + 1) == 0
             flat == {bucket_add(lst_flatten(L, k), k, data)}
         IN  (IF lst_size(L, k) + 1 > 1 THEN keep ELSE {}) \cup flat

\* ------------------------------------------------------ the interface
\* A variant of lst_pop that also takes an LST of one record for an empty one.
lst_pop_early(L) ==
    IF L.num_elements <= 1 THEN {[L |-> L, ret |-> NULL]} ELSE _lst_pop(L, 0)

lst_pop(L) ==
    IF L.num_elements = 0 THEN {[L |-> L, ret |-> NULL]} ELSE _lst_pop(L, 0)

lst_peek(L) ==
    IF L.num_elements = 0 THEN {[L |-> L, ret |-> NULL]} ELSE _lst_peek(L, 0)

\* A variant of lst_extract that does not look at the handle.
lst_extract_nohandle(L, data) ==
    IF L.num_elements = 0
    THEN [L |-> L, ret |-> 0 - 1]
    ELSE [L |-> _lst_extract(L, 0, data), ret |-> 1]

lst_extract(L, data) ==
    IF L.num_elements = 0 \/ item_index(L, data) < 0
    THEN [L |-> L, ret |-> 0 - 1]
    ELSE [L |-> _lst_extract(L, 0, data), ret |-> 1]

\* A variant of lst_insert that takes every nonzero handle for a resident one.
lst_insert_nonzero(L, data) ==
    IF L.num_elements = L.capacity /\ L.oom THEN {[L |-> L, ret |-> 0 - 1]}
    ELSE LET L1 == IF L.num_elements = L.capacity THEN lst_expand(L) ELSE L
             data_index == item_index(L1, data)
         IN  IF L1.fault # "none" THEN {[L |-> L1, ret |-> 0 - 1]}
             ELSE IF data_index # 0
                     \/ (data_index = 0 /\ L1.num_elements > 0 /\ L1.idx = 0
                         /\ item(L1, 0) = data)
             THEN {[L |-> L1, ret |-> 0 - 1]}
             ELSE {[L |-> L2, ret |-> 1] : L2 \in _lst_insert(L1, 0, data)}

lst_insert(L, data) ==
    IF L.num_elements = L.capacity /\ L.oom
    THEN {[L |-> [L EXCEPT !.failed = TRUE], ret |-> 0 - 1]}
    ELSE LET L1 == IF L.num_elements = L.capacity THEN lst_expand(L) ELSE L
             data_index == item_index(L1, data)
         IN  IF L1.fault # "none" THEN {[L |-> L1, ret |-> 0 - 1]}
             ELSE IF data_index > 0
                     \/ (data_index = 0 /\ L1.num_elements > 0 /\ L1.idx = 0
                         /\ item(L1, 0) = data)
             THEN {[L |-> L1, ret |-> 0 - 1]}
             ELSE {[L |-> L2, ret |-> 1] : L2 \in _lst_insert(L1, 0, data)}

lst_num_elements(L) == L.num_elements

\* ------------------------------------------------------- the iterator
\* Both yield the value left in *iter and the pointer returned.
lst_iter_init(L, it) ==
    IF L.num_elements = 0 THEN [iter |-> it, ret |-> NULL]
    ELSE [iter |-> L.idx, ret |-> item(L, L.idx)]

lst_iter_next(L, it) ==
    IF (it + 1) >= stack_item(L, 0) THEN [iter |-> it, ret |-> NULL]
    ELSE [iter |-> it + 1, ret |-> item(L, it + 1)]

\* ---------------------------------------------------------- the state
VARIABLES
    capacity,       \* lst->capacity
    idx,            \* lst->idx
    num_elements,   \* lst->num_elements
    p,              \* lst->p, the element array
    depth,          \* lst->s->depth
    size,           \* lst->s->size
    data,           \* lst->s->data, stale entries above depth included
    index,          \* the handle field of every user record
    fault,          \* "none", or how the process died
    op,             \* history: the last call made,
    arg,            \*          its record argument (NULL if none),
    ret,            \*          and what it returned
    resident,       \* history: records inserted with success and not removed since
    net,            \* history: successful inserts minus successful removals
    calls,          \* history: number of calls made so far
    removed,        \* history: records popped or extracted and not inserted since
    nomem,          \* history: an allocation failed during the last call
    iter,           \* the client's lst_iter_t, uninitialised until lst_iter_init writes it
    visited,        \* history: the non-null results of the iteration in progress
    peeked          \* history: what the call before the last returned, if it was lst_peek

vars == <<capacity, idx, num_elements, p, depth, size, data, index, fault,
          op, arg, ret, resident, net, calls, removed, nomem, iter, visited, peeked>>

\* The structure as the operators above take it; oom says whether the
\* allocator fails during the call.  No allocation has failed yet, and
\* nothing is known of the memory past the pivot-stack storage.
State(oom) ==
    [capacity |-> capacity, idx |-> idx, num_elements |-> num_elements, p |-> p,
     depth |-> depth, size |-> size, data |-> data, index |-> index,
     fault |-> fault, oom |-> oom, failed |-> FALSE, oob |-> UNINIT]

\* The structure during a call in which the allocator fails, with what a
\* read past the pivot-stack storage yields: any index of the array (the
\* code reduces what it reads), or UNMAPPED.
OobValues == (0 .. (capacity - 1)) \cup {UNMAPPED}
NoMemState(oob) == [State(TRUE) EXCEPT !.oob = oob]

\* The structures a call may run on: one if the allocator works, one for
\* every value of the memory past the stack if it fails.
States(oom) == IF oom THEN {NoMemState(v) : v \in OobValues} ELSE {State(FALSE)}

Commit(L) ==
    /\ capacity' = L.capacity
    /\ idx' = L.idx
    /\ num_elements' = L.num_elements
    /\ p' = L.p
    /\ depth' = L.depth
    /\ size' = L.size
    /\ data' = L.data
    /\ index' = L.index
    /\ fault' = L.fault
    /\ nomem' = L.failed

\* _lst_alloc: calloc'ed array and stack, stack_push(0), idx = 0.  Every
\* record starts with its handle field 0, as the handle contract asks.
Init ==
    /\ capacity = INITIAL_CAPACITY
    /\ idx = 0
    /\ num_elements = 0
    /\ p = [i \in 0 .. (INITIAL_CAPACITY - 1) |-> NULL]
    /\ depth = 1
    /\ size = INITIAL_STACK_CAPACITY
    /\ data = [i \in 0 .. (INITIAL_STACK_CAPACITY - 1) |-> 0]
    /\ index = [r \in Records |-> 0]
    /\ fault = "none"
    /\ op = "alloc"
    /\ arg = NULL
    /\ ret = 0
    /\ resident = {}
    /\ net = 0
    /\ calls = 0
    /\ removed = {}
    /\ nomem = FALSE
    /\ iter = UNINIT
    /\ visited = <<>>
    /\ peeked = NULL

\* The client makes a call: only a live process does, and a run is limit calls.
\* A call that can change the LST ends the iteration in progress, and the
\* client's iterator with it.
Call(limit) ==
    /\ fault = "none"
    /\ calls < limit
    /\ calls' = calls + 1
    /\ iter' = UNINIT
    /\ visited' = <<>>
    /\ peeked' = IF op = "peek" THEN ret ELSE NULL

\* lst_insert(lst, x), whatever the capacity.
InsertCall(x, oom, limit) ==
    /\ Call(limit)
    /\ \E S \in States(oom) : \E R \in lst_insert(S, x) :
          /\ Commit(R.L)
          /\ op' = "insert" /\ arg' = x /\ ret' = R.ret
          /\ resident' = IF R.ret >= 0 THEN resident \cup {x} ELSE resident
          /\ net' = IF R.ret >= 0 THEN net + 1 ELSE net
          /\ removed' = IF R.ret >= 0 THEN removed \ {x} ELSE removed

\* The same call in a run that lets the array double MaxExpand times.
Insert(x, oom, limit) ==
    /\ (num_elements = capacity) => (2 * capacity <= MaxCapacity)
    /\ InsertCall(x, oom, limit)

Peek(oom, limit) ==
    /\ Call(limit)
    /\ \E S \in States(oom) : \E R \in lst_peek(S) :
          /\ Commit(R.L)
          /\ op' = "peek" /\ arg' = NULL /\ ret' = R.ret
          /\ UNCHANGED <<resident, net, removed>>

Pop(oom, limit) ==
    /\ Call(limit)
    /\ \E S \in States(oom) : \E R \in lst_pop(S) :
          /\ Commit(R.L)
          /\ op' = "pop" /\ arg' = NULL /\ ret' = R.ret
          /\ resident' = IF R.ret # NULL THEN resident \ {R.ret} ELSE resident
          /\ net' = IF R.ret # NULL THEN net - 1 ELSE net
          /\ removed' = IF R.ret # NULL THEN removed \cup {R.ret} ELSE removed

Extract(x, oom, limit) ==
    /\ Call(limit)
    /\ \E S \in States(oom) :
       LET R == lst_extract(S, x)
       IN  /\ Commit(R.L)
           /\ op' = "extract" /\ arg' = x /\ ret' = R.ret
           /\ resident' = IF R.ret >= 0 THEN resident \ {x} ELSE resident
           /\ net' = IF R.ret >= 0 THEN net - 1 ELSE net
           /\ removed' = IF R.ret >= 0 THEN removed \cup {x} ELSE removed

\* The iterator calls change nothing of the LST and are not counted in calls.
IterOps == {"iter_init", "iter_next"}

IterInit ==
    /\ fault = "none"
    /\ LET R == lst_iter_init(State(FALSE), iter)
       IN  /\ iter' = R.iter
           /\ op' = "iter_init" /\ arg' = NULL /\ ret' = R.ret
           /\ visited' = IF R.ret # NULL THEN <<R.ret>> ELSE <<>>
    /\ peeked' = NULL
    /\ UNCHANGED <<capacity, idx, num_elements, p, depth, size, data, index, fault,
                   resident, net, calls, removed, nomem>>

\* Called while an iteration is in progress: after a lst_iter_init or a
\* lst_iter_next that returned a record, with no other call in between.
IterNext ==
    /\ fault = "none"
    /\ op \in IterOps /\ ret # NULL
    /\ LET R == lst_iter_next(State(FALSE), iter)
       IN  /\ iter' = R.iter
           /\ op' = "iter_next" /\ arg' = NULL /\ ret' = R.ret
           /\ visited' = IF R.ret # NULL THEN Append(visited, R.ret) ELSE visited
    /\ peeked' = NULL
    /\ UNCHANGED <<capacity, idx, num_elements, p, depth, size, data, index, fault,
                   resident, net, calls, removed, nomem>>

\* Any client of the interface whose allocations succeed; a run is MaxOps calls.
Next ==
    \/ \E x \in SomeRecords : Insert(x, FALSE, MaxOps)
    \/ Peek(FALSE, MaxOps)
    \/ Pop(FALSE, MaxOps)
    \/ \E x \in SomeRecords : Extract(x, FALSE, MaxOps)

Spec == Init /\ [][Next]_vars

\* A client that only inserts, peeks and pops; a run is MaxOpsIPP calls.
NextIPP ==
    \/ \E x \in SomeRecords : Insert(x, FALSE, MaxOpsIPP)
    \/ Peek(FALSE, MaxOpsIPP)
    \/ Pop(FALSE, MaxOpsIPP)

SpecIPP == Init /\ [][NextIPP]_vars

\* A client that keeps the handle contract: it inserts records that are not
\* in the LST and extracts records that are.
NextClient ==
    \/ \E x \in SomeRecords \ resident : Insert(x, FALSE, MaxOps)
    \/ Peek(FALSE, MaxOps)
    \/ Pop(FALSE, MaxOps)
    \/ \E x \in resident : Extract(x, FALSE, MaxOps)

SpecClient == Init /\ [][NextClient]_vars

\* The client of lst_stress_realloc, which may also peek: it inserts records
\* that are not in the LST and pops, so that the array fills, wraps and expands.
NextRealloc ==
    \/ \E x \in SomeRecords \ resident : Insert(x, FALSE, MaxOpsIPP)
    \/ Peek(FALSE, MaxOpsIPP)
    \/ Pop(FALSE, MaxOpsIPP)

SpecRealloc == Init /\ [][NextRealloc]_vars

\* The client that keeps the handle contract, with an allocator that may
\* fail during any call.
NextNoMem ==
    \/ \E x \in SomeRecords \ resident, oom \in BOOLEAN : Insert(x, oom, MaxOpsNoMem)
    \/ \E oom \in BOOLEAN : Peek(oom, MaxOpsNoMem)
    \/ \E oom \in BOOLEAN : Pop(oom, MaxOpsNoMem)
    \/ \E x \in resident, oom \in BOOLEAN : Extract(x, oom, MaxOpsNoMem)
    \/ IterInit
    \/ IterNext

SpecNoMem == Init /\ [][NextNoMem]_vars

\* The same client, which also iterates over the LST between its calls.
NextIter ==
    \/ \E x \in SomeRecords \ resident : Insert(x, FALSE, MaxOps)
    \/ Peek(FALSE, MaxOps)
    \/ Pop(FALSE, MaxOps)
    \/ \E x \in resident : Extract(x, FALSE, MaxOps)
    \/ IterInit
    \/ IterNext

SpecIter == Init /\ [][NextIter]_vars

\* A larger run of a client that keeps the handle contract and inserts every
\* record once: one record more (three distinct keys, one of them twice) and
\* MaxOpsLarge calls.
NextLarge ==
    \/ \E x \in Records \ (resident \cup removed) : Insert(x, FALSE, MaxOpsLarge)
    \/ Peek(FALSE, MaxOpsLarge)
    \/ Pop(FALSE, MaxOpsLarge)
    \/ \E x \in resident : Extract(x, FALSE, MaxOpsLarge)

SpecLarge == Init /\ [][NextLarge]_vars

\* A client that only inserts, peeks and pops, inserting any record, in a
\* run of MaxOpsIPP calls in which the array doubles whenever it is full.
NextGrow ==
    \/ \E x \in SomeRecords : InsertCall(x, FALSE, MaxOpsIPP)
    \/ Peek(FALSE, MaxOpsIPP)
    \/ Pop(FALSE, MaxOpsIPP)

SpecGrow == Init /\ [][NextGrow]_vars

\* The scenario of lst_test: fill an empty LST with records, extract some of
\* them by handle, pop until it is empty; then the same again.
Fill ==
    /\ op \in {"alloc", "insert"} \/ (op = "pop" /\ num_elements = 0)
    /\ \E x \in SomeRecords \ resident : Insert(x, FALSE, MaxOpsR2)

ExtractSome ==
    /\ op \in {"insert", "extract"}
    /\ \E x \in resident : Extract(x, FALSE, MaxOpsR2)

Drain ==
    /\ op \in {"insert", "extract", "pop"}
    /\ num_elements > 0
    /\ Pop(FALSE, MaxOpsR2)

NextR2 == Fill \/ ExtractSome \/ Drain

SpecR2 == Init /\ [][NextR2]_vars

\* ------------------------------------------------------ state functions
\* The records stored at the logical positions [idx, idx + num_elements).
StoredAt(i) == p[(idx + i) % capacity]
Stored == {StoredAt(i) : i \in 0 .. (num_elements - 1)}
\* Each stored once: no record sits in two slots of the occupied range.
StoredOnce ==
    \A i, j \in 0 .. (num_elements - 1) : StoredAt(i) = StoredAt(j) => i = j
\* No resident record precedes m.
IsMin(m, S) == m \in Records /\ \A y \in S : cmp(y, m) >= 0

\* The slots of the occupied range [idx, idx + num_elements) modulo capacity.
Occupied == {(idx + i) % capacity : i \in 0 .. (num_elements - 1)}
\* The call just made: the step is one call, not a stuttering step.
Called(name) == op' = name /\ calls' = calls + 1

\* ================================================================ claims

\* C1: for any sequence of lst_insert, lst_peek and lst_pop calls, lst_pop on
\* a non-empty LST (one with a resident record) returns a resident record
\* that no resident record precedes, and only that record stops being
\* resident.  Stated for the calls that return (the process is alive).
C1_PopReturnsMinimum ==
    [][(Called("pop") /\ resident # {} /\ fault' = "none")
         => /\ ret' \in resident
            /\ IsMin(ret', resident)
            /\ resident' = resident \ {ret'}]_vars

\* C2: in every reachable state a successful lst_extract(x) of a resident
\* record x removes exactly x: afterwards the occupied range holds the
\* records that were resident other than x, each exactly once.
C2_ExtractRemovesExactlyX ==
    [][(Called("extract") /\ arg' \in resident /\ ret' >= 0 /\ fault' = "none"
        /\ Stored = resident /\ StoredOnce)
         => /\ Stored' = resident \ {arg'}
            /\ StoredOnce']_vars

\* C3: for any sequence of insert, peek and pop, lst_peek on a non-empty LST
\* returns a resident record that no resident record precedes, and leaves
\* num_elements, idx, s[0] and the set of stored records unchanged.
C3_PeekReturnsMinimum ==
    [][(Called("peek") /\ resident # {} /\ fault' = "none")
         => /\ ret' \in resident
            /\ IsMin(ret', resident)
            /\ num_elements' = num_elements
            /\ idx' = idx
            /\ data'[0] = data[0]
            /\ Stored' = Stored]_vars

\* C4: any run of successive lst_pop calls with no call in between returns
\* a nondecreasing sequence (and so n pops after n inserts return the
\* records sorted).
C4_SuccessivePopsSorted ==
    [][(op = "pop" /\ ret \in Records /\ Called("pop") /\ ret' \in Records
        /\ fault' = "none")
         => cmp(ret, ret') <= 0]_vars

\* C5: inserting records into an empty LST, then extracting any of them by
\* handle, then popping until it is empty: every extract succeeds, every pop
\* returns a record that was inserted and neither extracted nor popped yet,
\* the least of them, and the LST is empty (num_elements = 0) exactly when
\* every record that was not extracted has been returned.
C5_ExtractThenDrain ==
    [][/\ Called("extract") => (fault' = "none" /\ ret' >= 0)
       /\ Called("pop") => /\ fault' = "none"
                           /\ ret' \in resident
                           /\ IsMin(ret', resident)
                           /\ (num_elements' = 0) <=> (resident' = {})]_vars

\* C5 witness: the third record inserted (capacity has doubled) leaves last,
\* by a pop that returns record 1.  Record 1 is the strict minimum, so
\* records 2 and 3 left before it by lst_extract, not by lst_pop.
C5_Witness ==
    /\ op = "pop" /\ ret = 1 /\ num_elements = 0 /\ resident = {}
    /\ calls = 6 /\ capacity = 2 * INITIAL_CAPACITY
    /\ \A r \in {1, 2, 3} : index[r] = 0 - 1

\* C6: lst_peek followed immediately by lst_pop returns the same record
\* (the same identity, not only an equal key): a pop made right after a peek
\* that returned a record returns, and returns that record.
C6_PeekThenPopSame ==
    (op = "pop" /\ peeked # NULL) => (fault = "none" /\ ret = peeked)

\* C6 witness: a pop right after a peek returned the record peeked, while a
\* record with an equal key stays resident.
C6_Witness ==
    /\ op = "pop" /\ peeked \in Records /\ ret = peeked /\ fault = "none"
    /\ \E y \in resident : y # ret /\ key(y) = key(ret)

\* C7: after any sequence of calls lst_num_elements is the number of
\* successful lst_insert calls minus the number of non-null lst_pop results
\* and successful lst_extract calls; failed calls and lst_peek leave it.
C7_CountIsNetInserts ==
    fault = "none" => lst_num_elements(State(FALSE)) = net

\* C7 witness: inserts have succeeded and records have been removed (one by
\* the last call, a pop, and another before it), and one record is left.
C7_Witness ==
    /\ op = "pop" /\ ret \in Records /\ fault = "none"
    /\ net = 1 /\ num_elements = 1 /\ calls >= 5
    /\ \E r \in Records : r # ret /\ index[r] = 0 - 1

\* C8: every resident record's handle field is the reduced index of the
\* slot that holds it, inside the occupied range.
C8_HandleIsSlot ==
    fault = "none" =>
        \A r \in resident : /\ index[r] \in 0 .. (capacity - 1)
                            /\ p[index[r]] = r
                            /\ index[r] \in Occupied

\* C9: a record returned by lst_pop or removed by a successful lst_extract
\* has handle -1 when the call returns, and its handle stays -1 until that
\* record is itself inserted again.
C9_RemovedHandleStays ==
    [][fault' = "none" =>
         /\ (Called("pop") /\ ret' \in Records) => index'[ret'] = 0 - 1
         /\ (Called("extract") /\ ret' >= 0) => index'[arg'] = 0 - 1
         /\ \A r \in Records :
               (index[r] = 0 - 1 /\ ~(Called("insert") /\ arg' = r))
                   => index'[r] = 0 - 1]_vars

\* C10: whatever idx is, lst_insert(x) fails when x is already resident with
\* a positive handle, or with handle 0 while x is the record resident in slot 0.
C10_ResidentInsertRejected ==
    [][\A x \in resident :
          (/\ Called("insert") /\ arg' = x
           /\ Stored = resident /\ StoredOnce
           /\ \/ index[x] > 0
              \/ (index[x] = 0 /\ p[0] = x /\ 0 \in Occupied))
              => ret' < 0]_vars

\* The real entries of the pivot stack, and the state a caller can tell apart:
\* capacity, idx, num_elements, the stack, the array and every handle.
StackEntries == [i \in 0 .. (depth - 1) |-> data[i]]
Structure == <<capacity, idx, num_elements, depth, StackEntries, p, index>>

\* C11: whenever lst_insert rejects a record as already resident, the LST is
\* unchanged: capacity, idx, num_elements, the pivot stack's depth and
\* entries, the array and every handle are as before the call, also when the
\* call is made with num_elements = capacity.
C11_RejectedInsertChangesNothing ==
    [][(Called("insert") /\ arg' \in resident /\ ret' < 0 /\ fault' = "none")
          => Structure' = Structure]_vars

\* C12: a record that was removed by lst_pop or by a successful lst_extract
\* (and has not been inserted since) can be inserted again: lst_insert on it
\* returns success and the record is resident afterwards, in a slot of the
\* occupied range that its handle names.
C12_RemovedCanBeInsertedAgain ==
    [][(Called("insert") /\ arg' \in removed)
          => /\ fault' = "none"
             /\ ret' >= 0
             /\ index'[arg'] \in Occupied'
             /\ p'[index'[arg']] = arg']_vars

\* C13: lst_insert rejects every record whose handle field is nonzero,
\* negative values included, as well as a record whose handle is zero while
\* it is already at slot 0.
C13_NonzeroHandleRejected ==
    [][(/\ Called("insert")
        /\ \/ index[arg'] # 0
           \/ (index[arg'] = 0 /\ p[0] = arg' /\ 0 \in Occupied))
          => ret' < 0]_vars

\* C13 as the code has it: lst_insert rejects every record whose handle is
\* positive, and a record whose handle is zero while it sits in slot 0 of a
\* non-empty LST whose idx is 0; a record whose handle is negative (-1, what
\* a removal leaves) is accepted.
C13_PositiveHandleRejected ==
    [][(Called("insert") /\ fault' = "none")
          => /\ index[arg'] > 0 => ret' < 0
             /\ (index[arg'] = 0 /\ p[0] = arg' /\ 0 \in Occupied /\ idx = 0)
                    => ret' < 0
             /\ index[arg'] < 0 => (ret' >= 0 /\ p'[index'[arg']] = arg')]_vars

\* C13 witness: the third call of a run inserts with success the record that
\* the second call removed from the front (idx is 1): every other record
\* still has the handle 0 it started with, so the one inserted had -1.
C13_Witness ==
    /\ op = "insert" /\ ret >= 0 /\ calls = 3 /\ idx = 1 /\ num_elements = 1
    /\ p[index[arg]] = arg
    /\ \A r \in Records \ {arg} : index[r] = 0

\* C14: lst_extract(x) returns failure if and only if the LST is empty or
\* the handle of x is negative; a call that returns failure changes nothing
\* (idx, num_elements, the pivot stack, the array, the handles); so the
\* second of two extracts of the same record in a row fails.
C14_ExtractFailsIffNotResident ==
    [][(Called("extract") /\ fault' = "none")
          => /\ (ret' < 0) <=> (num_elements = 0 \/ index[arg'] < 0)
             /\ ret' < 0 => Structure' = Structure
             /\ (op = "extract" /\ arg = arg') => ret' < 0]_vars

\* C14 witness: after lst_insert(1), lst_insert(3), lst_extract(3) (the only
\* three calls that leave record 1 alone at slot 0 with idx 0 and record 3
\* removed), a second lst_extract(3) fails on a non-empty LST.
C14_Witness ==
    /\ op = "extract" /\ ret < 0 /\ arg = 3 /\ calls = 4
    /\ num_elements = 1 /\ idx = 0 /\ resident = {1} /\ 3 \in removed
    /\ index[3] = 0 - 1

\* C15: lst_extract returns 0 if the removal succeeds and -1 if it fails:
\* the result is 0 when the call has removed a record (num_elements has gone
\* down by one) and -1 when it has not.
C15_ExtractReturnsZero ==
    [][(Called("extract") /\ fault' = "none")
          => /\ (num_elements' = num_elements - 1) => ret' = 0
             /\ (num_elements' = num_elements) => ret' = 0 - 1]_vars

\* C16: lst_pop and lst_peek return NULL if and only if num_elements = 0, and
\* in that case they leave the whole state unchanged (idx, num_elements,
\* capacity, the pivot stack's depth, entries and storage, the array).
C16_NullIffEmpty ==
    [][((Called("pop") \/ Called("peek")) /\ fault' = "none")
          => /\ (ret' = NULL) <=> (num_elements = 0)
             /\ (num_elements = 0) => (Structure' = Structure /\ size' = size)]_vars

\* C16 witness: lst_peek has returned NULL on an LST that has been used and
\* emptied (records were removed, idx has moved on).
C16_Witness ==
    /\ op = "peek" /\ ret = NULL /\ num_elements = 0 /\ fault = "none"
    /\ removed # {} /\ idx # 0

\* C17: on an LST with n resident records that is not changed during the
\* iteration, lst_iter_init returns NULL iff n = 0; otherwise lst_iter_init
\* and the lst_iter_next calls after it yield n records before lst_iter_next
\* returns NULL, every resident record exactly once, whatever the layout
\* (the occupied range may wrap around the end of the array).
C17_IterationVisitsResidents ==
    /\ op = "iter_init" => ((ret = NULL) <=> (resident = {}))
    /\ (op \in IterOps /\ ret # NULL) => ret \in resident
    /\ (op = "iter_next" /\ ret = NULL)
          => /\ Len(visited) = Cardinality(resident)
             /\ {visited[i] : i \in DOMAIN visited} = resident

\* C18: when lst_insert is called with num_elements = capacity, for any idx
\* in [0, capacity) (the occupied range may wrap), the expansion doubles the
\* capacity and keeps num_elements, idx and the stack depth; afterwards every
\* resident record is stored in the occupied range of the new array with its
\* handle equal to its slot, and every real pivot-stack entry refers to the
\* record it referred to before; the new record is then inserted, and the
\* pops that follow return records in nondecreasing order.
C18_ExpansionKeepsEverything ==
    /\ [](LET L == State(FALSE)
              E == lst_expand(L)
          IN  (fault = "none" /\ num_elements = capacity)
                 => /\ idx \in 0 .. (capacity - 1)
                    /\ E.fault = "none"
                    /\ E.capacity = 2 * capacity
                    /\ E.num_elements = num_elements
                    /\ E.idx = idx /\ E.depth = depth
                    /\ \A r \in resident :
                          /\ E.index[r] \in {(E.idx + i) % E.capacity :
                                                i \in 0 .. (E.num_elements - 1)}
                          /\ E.p[E.index[r]] = r
                    /\ \A k \in 1 .. (depth - 1) :
                          pivot_item(E, k) = pivot_item(L, k))
    /\ [][/\ (Called("insert") /\ num_elements = capacity)
               => (fault' = "none" /\ ret' >= 0 /\ capacity' = 2 * capacity
                   /\ Stored' = resident' /\ StoredOnce')
          /\ Called("pop")
               => /\ fault' = "none"
                  /\ (op = "pop" /\ ret \in Records /\ ret' \in Records)
                        => cmp(ret, ret') <= 0]_vars

\* C18 witness: the fifth call of a run inserts record 3 with success and
\* leaves capacity doubled, three records and idx 1.  Four inserts and one
\* pop were made; had the pop come after the third insert, the fifth call
\* would have inserted the record popped, record 1: so the pop came earlier,
\* and the fifth call found the array full with idx 1, its range wrapped.
C18_Witness ==
    /\ op = "insert" /\ arg = 3 /\ ret >= 0 /\ calls = 5
    /\ capacity = 2 * INITIAL_CAPACITY /\ idx = 1 /\ num_elements = 3
    /\ resident = {1, 2, 3}

\* C19: if an allocation needed to grow the element array or the pivot stack
\* fails during an operation, the operation reports failure to its caller
\* (a negative result of lst_insert, NULL from lst_pop and lst_peek) and the
\* LST is left in its prior state: capacity, idx, num_elements, the pivot
\* stack, the array and the handles are as before the call.
C19_FailedAllocationReported ==
    [][(calls' = calls + 1 /\ nomem')
          => /\ fault' = "none"
             /\ op' = "insert" => ret' < 0
             /\ op' \in {"pop", "peek"} => ret' = NULL
             /\ Structure' = Structure /\ size' = size]_vars

\* The LST a call leaves, without the allocator's state.
SameLst(A, B) == [A EXCEPT !.oom = FALSE, !.oob = UNINIT] =
                 [B EXCEPT !.oom = FALSE, !.oob = UNINIT]

\* C20 (as stated): only lst_insert allocates; no call of lst_peek, lst_pop,
\* lst_extract or of the iterator changes the capacity of the element array
\* or the size of the pivot-stack storage.
C20_OnlyInsertAllocates ==
    [][op' # "insert" => (size' = size /\ capacity' = capacity)]_vars

\* C20 (amended): lst_extract, lst_num_elements and the iterator never
\* allocate: they leave the capacity of the array and the size of the stack
\* storage alone, no allocation of theirs can fail, and what they return and
\* leave is the same with an allocator that fails as with one that works.
\* lst_peek and lst_pop never grow the array (they can grow the pivot
\* stack), and lst_insert never grows the pivot stack (it can grow the array).
C20_ExtractAndIteratorNeverAllocate ==
    /\ [](fault = "none" =>
            \A v \in OobValues :
                /\ \A x \in resident :
                       LET A == lst_extract(State(FALSE), x)
                           B == lst_extract(NoMemState(v), x)
                       IN  B.ret = A.ret /\ SameLst(B.L, A.L) /\ ~B.L.failed
                /\ lst_num_elements(NoMemState(v)) = lst_num_elements(State(FALSE))
                /\ lst_iter_init(NoMemState(v), iter) = lst_iter_init(State(FALSE), iter)
                /\ (op \in IterOps /\ ret # NULL) =>
                       lst_iter_next(NoMemState(v), iter) = lst_iter_next(State(FALSE), iter))
    /\ [][/\ op' \in ({"extract"} \cup IterOps) => (size' = size /\ capacity' = capacity)
          /\ Called("extract") => ~nomem'
          /\ op' \in {"peek", "pop"} => capacity' = capacity
          /\ op' = "insert" => size' = size]_vars

\* lst_peek has grown the pivot-stack storage of an LST whose array never grew.
C20_Witness ==
    /\ op = "peek" /\ ret # NULL /\ fault = "none"
    /\ size = 2 * INITIAL_STACK_CAPACITY
    /\ capacity = INITIAL_CAPACITY

\* C21: whenever a removal (a lst_pop that returns a record, a successful
\* lst_extract) leaves no resident record, the LST is the empty one:
\* num_elements = 0, the pivot stack holds the fictitious pivot alone
\* (depth = 1), and s[0] - idx is 0 modulo the capacity.
C21_EmptyAfterLastRemoval ==
    (/\ fault = "none" /\ resident = {}
     /\ \/ op = "pop" /\ ret # NULL
        \/ op = "extract" /\ ret >= 0)
        => /\ num_elements = 0
           /\ depth = 1
           /\ (data[0] - idx) % capacity = 0

\* The record at logical position i of the array: item(lst, i).
ItemAt(i) == item(State(FALSE), i)

\* The real pivot at stack index k: no record to its right (positions in
\* (s[k], s[0])) precedes it, no record to its left (positions in
\* [idx, s[k])) follows it.
PivotSeparates(k) ==
    /\ ItemAt(data[k]) \in Records
    /\ \A i \in (data[k] + 1) .. (data[0] - 1) :
           ItemAt(i) \in Records /\ cmp(ItemAt(i), ItemAt(data[k])) >= 0
    /\ \A i \in idx .. (data[k] - 1) :
           ItemAt(i) \in Records /\ cmp(ItemAt(i), ItemAt(data[k])) <= 0

\* C22: between calls, every real pivot (stack index k in [1, depth))
\* separates the records: none to its right precedes it, none to its left
\* follows it, and the pivots are in nondecreasing order from left to right;
\* after any sequence of calls, equal keys allowed.
C22_PivotsSeparate ==
    fault = "none" =>
        /\ \A k \in 1 .. (depth - 1) : PivotSeparates(k)
        /\ \A k \in 1 .. (depth - 2) : cmp(ItemAt(data[k + 1]), ItemAt(data[k])) <= 0

\* The size of the bucket at stack index k, as lst_validate computes it.
bucket_size(k) == bucket_upb(State(FALSE), k) - bucket_lwb(State(FALSE), k) + 1

\* The sum of the sizes of the buckets at the stack indices below n.
RECURSIVE bucket_size_sum(_)
bucket_size_sum(n) == IF n = 0 THEN 0 ELSE bucket_size(n - 1) + bucket_size_sum(n - 1)

\* C23: between calls the fictitious pivot is exact: s[0] = idx + num_elements
\* as unreduced integers; every one of the depth buckets has a size
\* upb - lwb + 1 that is not negative, and the sizes plus depth - 1 (the real
\* pivots) sum to num_elements.
C23_FictitiousPivotExact ==
    fault = "none" =>
        /\ data[0] = idx + num_elements
        /\ \A k \in 0 .. (depth - 1) : bucket_size(k) >= 0
        /\ bucket_size_sum(depth) + depth - 1 = num_elements

\* C24: between calls the pivot stack holds at least the fictitious pivot,
\* its entries decrease strictly with the stack index as unreduced logical
\* indices (s[0] > s[1] > ... > s[depth - 1]), and every real pivot entry
\* s[k], k >= 1, lies in [idx, s[0]).
C24_StackStrictlyDecreasing ==
    fault = "none" =>
        /\ stack_depth(State(FALSE)) >= 1
        /\ \A k \in 0 .. (depth - 2) : data[k] > data[k + 1]
        /\ \A k \in 1 .. (depth - 1) : idx <= data[k] /\ data[k] < data[0]

\* C25: logical indices stay bounded: between calls 0 <= idx < capacity,
\* 0 <= num_elements <= capacity, and every pivot-stack entry is in
\* [idx, idx + num_elements], hence below 2 * capacity; a call changes idx
\* only by incrementing it, and idx is reset to 0 exactly when the increment
\* makes it a multiple of the capacity.
C25_IndicesBounded ==
    /\ [](fault = "none" =>
            /\ 0 <= idx /\ idx < capacity
            /\ 0 <= num_elements /\ num_elements <= capacity
            /\ \A k \in 0 .. (depth - 1) :
                   /\ idx <= stack_item(State(FALSE), k)
                   /\ stack_item(State(FALSE), k) <= idx + num_elements
                   /\ stack_item(State(FALSE), k) < 2 * capacity)
    /\ [][(fault' = "none" /\ idx' # idx) =>
              IF is_equivalent(State(FALSE), idx + 1, 0)
              THEN idx' = 0
              ELSE idx' = idx + 1]_vars

\* The calls of partition made by the descent of _lst_pop and of _lst_peek
\* (the two descend alike) from stack_index, for every value of rand(): each
\* call as <<the stack depth, the stack index, the structure>> that partition
\* is called with.
RECURSIVE partition_calls(_, _)
partition_calls(L, stack_index) ==
    LET here == IF is_bucket(L, stack_index)
                THEN {<<stack_depth(L), stack_index, L>>}
                ELSE {}
        P == IF is_bucket(L, stack_index) THEN partition(L, stack_index) ELSE {L}
        after(L1) ==
            LET k == stack_index + 1
            IN  IF L1.fault # "none" \/ k > 2 * L1.capacity THEN {}
                ELSE IF k >= L1.size /\ L1.oob = UNMAPPED THEN {}
                ELSE IF lst_size(L1, k) = 0 THEN {}
                ELSE partition_calls(L1, k)
    IN  here \cup UNION {after(L1) : L1 \in P}

\* C26: in every descent of lst_pop and lst_peek from every reachable state
\* (the LST is not empty: both return NULL before descending otherwise),
\* partition is only called on a subtree that is a single bucket
\* (stack_index = depth - 1) holding at least one record.
C26_PartitionOnNonemptyBucket ==
    (fault = "none" /\ num_elements > 0) =>
        \A c \in partition_calls(State(FALSE), 0) :
            LET low == bucket_lwb(c[3], c[2])
                high == bucket_upb(c[3], c[2])
            IN  /\ c[2] = stack_depth(c[3]) - 1
                /\ high - low + 1 >= 1
                /\ \E i \in low .. high : item(c[3], i) \in Records

\* The logical positions low .. high as slots of the array.
Slots(L, low, high) == {index_reduce(L, i) : i \in low .. high}

\* What partition(lst, stack_index) has to have done when it turned L, with
\* the bucket [low, high], into R: one entry h pushed on the stack, inside
\* the bucket; no record before h greater and no record after h less than
\* the record at h; the same records in the bucket, each with its slot as
\* handle; the older stack entries, the slots and the handles outside the
\* bucket, and the counters as they were.
PartitionPost(L, R, low, high) ==
    LET h == R.data[L.depth]
    IN  /\ R.fault = "none"
        /\ R.depth = L.depth + 1
        /\ low <= h /\ h <= high
        /\ \A k \in 0 .. (L.depth - 1) : R.data[k] = L.data[k]
        /\ \A i \in low .. (h - 1) : cmp(item(R, i), item(R, h)) <= 0
        /\ \A i \in (h + 1) .. high : cmp(item(R, i), item(R, h)) >= 0
        /\ {item(R, i) : i \in low .. high} = {item(L, i) : i \in low .. high}
        /\ \A i \in low .. high : item_index(R, item(R, i)) = index_reduce(R, i)
        /\ \A j \in (0 .. (L.capacity - 1)) \ Slots(L, low, high) : R.p[j] = L.p[j]
        /\ \A r \in Records \ {item(L, i) : i \in low .. high} : R.index[r] = L.index[r]
        /\ R.capacity = L.capacity /\ R.idx = L.idx /\ R.num_elements = L.num_elements

\* C27: every call of partition that a descent of lst_pop or lst_peek makes
\* from a reachable state, on a bucket [low, high], for every value of rand():
\* pushes exactly one entry h with low <= h <= high; the chosen pivot record
\* is then stored at h, no record in [low, h) compares greater than it, no
\* record in (h, high] compares less than it, the records of [low, high] are
\* the same with handles matching their slots, and the older stack entries
\* and everything outside [low, high] are untouched.
C27_PartitionPostcondition ==
    (fault = "none" /\ num_elements > 0) =>
        \A c \in partition_calls(State(FALSE), 0) :
            LET low == bucket_lwb(c[3], c[2])
                high == bucket_upb(c[3], c[2])
            IN  /\ \A R \in partition(c[3], c[2]) : PartitionPost(c[3], R, low, high)
                /\ ~is_equivalent(c[3], low, high) =>
                      \A off \in RandMod(high + 1 - low) :
                          LET R == partition_at(c[3], c[2], low, high, low + off)
                          IN  item(R, R.data[c[3].depth]) = item(c[3], low + off)

\* The positions that the scan  while (cmp(item(lst, --h), pivot) > 0) ;
\* reads, h being the first of them.
RECURSIVE scan_down_reads(_, _, _)
scan_down_reads(L, h, pivot) ==
    {h} \cup (IF item(L, h) \in Records /\ cmp(item(L, h), pivot) > 0
              THEN scan_down_reads(L, h - 1, pivot)
              ELSE {})

\* The positions that the scan  while (cmp(item(lst, ++l), pivot) < 0) ;
\* reads, l being the first of them.
RECURSIVE scan_up_reads(_, _, _)
scan_up_reads(L, l, pivot) ==
    {l} \cup (IF item(L, l) \in Records /\ cmp(item(L, l), pivot) < 0
              THEN scan_up_reads(L, l + 1, pivot)
              ELSE {})

\* The positions read through h and l by the for (;;) loop of partition.
RECURSIVE hoare_reads(_, _, _, _)
hoare_reads(L, l0, h0, pivot) ==
    LET sh == scan_down(L, h0 - 1, pivot)
        sl == scan_up(L, l0 + 1, pivot)
        reads == scan_down_reads(L, h0 - 1, pivot) \cup scan_up_reads(L, l0 + 1, pivot)
    IN  IF ~sh.ok \/ ~sl.ok \/ sl.at >= sh.at THEN reads
        ELSE reads \cup
             hoare_reads(lst_move(lst_move(L, sl.at, item(L, sh.at)), sh.at, item(L, sl.at)),
                         sl.at, sh.at, pivot)

\* The structure that the loop of partition starts from once rand() has
\* picked chosen: the pivot swapped to the bottom of the bucket.
pivot_to_bottom(L, low, chosen) ==
    IF chosen # low
    THEN lst_move(lst_move(L, chosen, item(L, low)), low, item(L, chosen))
    ELSE L

\* C28: in every call of partition that a descent of lst_pop or lst_peek
\* makes from a reachable state and that reaches the Hoare scan (the bucket
\* [low, high] has more than one slot), for every pivot choice, every slot
\* read through h and l is a position inside [low, high], and the loop ends
\* with l >= h.
C28_ScanStaysInBucket ==
    (fault = "none" /\ num_elements > 0) =>
        \A c \in partition_calls(State(FALSE), 0) :
            LET low == bucket_lwb(c[3], c[2])
                high == bucket_upb(c[3], c[2])
            IN  (~is_equivalent(c[3], low, high) /\ high + 1 - low # 0) =>
                    \A off \in RandMod(high + 1 - low) :
                        LET L1 == pivot_to_bottom(c[3], low, low + off)
                            pivot == item(c[3], low + off)
                            H == hoare(L1, low - 1, high + 1, pivot)
                        IN  /\ pivot \in Records
                            /\ hoare_reads(L1, low - 1, high + 1, pivot) \subseteq low .. high
                            /\ H.L.fault = "none"
                            /\ H.l >= H.h

\* How the descent of _lst_pop and of _lst_peek (the two descend alike) from
\* stack_index can end, for every value of rand(): each end as <<the
\* recursive calls made (the stack index of the level that returns), the
\* stack depth at that moment, whether the level has returned>>; a level
\* that crashes or that the descent has carried past twice the capacity has
\* not returned.
RECURSIVE descent_ends(_, _)
descent_ends(L, stack_index) ==
    LET P == IF is_bucket(L, stack_index) THEN partition(L, stack_index) ELSE {L}
        after(L1) ==
            LET k == stack_index + 1
            IN  IF L1.fault # "none" THEN {<<stack_index, stack_depth(L1), FALSE>>}
                ELSE IF k > 2 * L1.capacity THEN {<<stack_index, stack_depth(L1), FALSE>>}
                ELSE IF k >= L1.size /\ L1.oob = UNMAPPED
                THEN {<<stack_index, stack_depth(L1), FALSE>>}
                ELSE IF lst_size(L1, k) = 0 THEN {<<stack_index, stack_depth(L1), TRUE>>}
                ELSE descent_ends(L1, k)
    IN  UNION {after(L1) : L1 \in P}

\* The recursive calls that _lst_insert(lst, stack_index, x) can have made
\* when it returns, for every value of rand().
RECURSIVE insert_ends(_, _, _)
insert_ends(L, stack_index, x) ==
    IF is_bucket(L, stack_index) THEN {stack_index}
    ELSE LET k == stack_index + 1
             pivot == pivot_item(L, k)
         IN  {stack_index} \cup
             (IF lst_size(L, k) + 1 > 1 /\ pivot \in Records /\ cmp(x, pivot) < 0
              THEN insert_ends(L, k, x)
              ELSE {})

\* The recursive calls that _lst_extract(lst, stack_index, x) has made when
\* it returns.
RECURSIVE extract_end(_, _, _)
extract_end(L, stack_index, x) ==
    IF is_bucket(L, stack_index) THEN stack_index
    ELSE LET k == stack_index + 1
             pivot == pivot_item(L, k)
         IN  IF pivot \in Records /\ cmp(x, pivot) < 0
             THEN extract_end(L, k, x)
             ELSE stack_index

\* C29: from every reachable state, whether or not the allocator fails
\* during the call, every descent of lst_peek and lst_pop returns, and a
\* descent (whose stack_index grows by one at each level) makes at most as
\* many recursive calls as the pivot stack is deep when it returns; so do
\* the descents of lst_insert and lst_extract.
C29_DescentsTerminate ==
    fault = "none" =>
        /\ num_elements > 0 =>
               \A o \in BOOLEAN : \A S \in States(o) :
                   \A e \in descent_ends(S, 0) : e[3] /\ e[1] <= e[2]
        /\ \A r \in SomeRecords :
               /\ \A n \in insert_ends(State(FALSE), 0, r) : n <= depth
               /\ extract_end(State(FALSE), 0, r) <= depth

\* C30: lst_flatten(lst, k), called for a pivot entry k of the stack as
\* insert, pop and extract call it, leaves stack index k valid: after it
\* returns k < depth, so that the bucket_add or bucket_delete that follows
\* works on entries strictly below the depth.
C30_FlattenKeepsIndexValid ==
    fault = "none" =>
        \A k \in 1 .. (depth - 1) : k < stack_depth(lst_flatten(State(FALSE), k))

\* C31: lst_extract never removes a record other than its argument: a call
\* that returns success was given a record that was resident, every other
\* stored record is still stored after the call, and a call on a record that
\* is not resident but has handle 0 (it was never inserted) leaves the set
\* of stored records and num_elements as they were.
C31_ExtractOnlyItsArgument ==
    [][(Called("extract") /\ fault' = "none")
          => /\ ret' >= 0 => arg' \in resident
             /\ (Stored \ {arg'}) \subseteq Stored'
             /\ (arg' \notin resident /\ index[arg'] = 0)
                    => (Stored' = Stored /\ num_elements' = num_elements)]_vars

====
